---- MODULE Spec2Model ----
(***************************************************************************)
(* User lifecycle core of the Tardigrade backend: the User entity, the     *)
(* Create/Get/List/Delete use cases, the Update route, the SQL repository  *)
(* and the per-request session guard, run by concurrent requests against   *)
(* one users table.                                                        *)
(*                                                                         *)
(* Storage semantics (the engine is PostgreSQL, READ COMMITTED): a         *)
(* statement of a request reads the committed table; a flushed write stays *)
(* private to the request (pend) until its commit and is dropped by its    *)
(* rollback; a write that touches a row or a unique key another request    *)
(* has written and not yet committed waits for that request to finish.     *)
(* Requests interleave at the awaited storage statements.                  *)
(***************************************************************************)
EXTENDS Integers, Sequences, FiniteSets, TLC

(* ------------------------------- bounds -------------------------------- *)
NProc == 2
MaxReqs == 2
MaxTime == 3
\* longest string given to a User object, and calls of validate() on it
MaxLen == 2
MaxCalls == 2
\* minutes the clock of the token issuer runs
MaxClock == 16

Procs == 1..NProc

(* -------------------------- values and inputs -------------------------- *)
\* Python None for an optional integer or timestamp
None == 0
\* a field left out of a UserUpdate body (None in the schema)
Absent == <<"None">>

\* strings are sequences of characters
EmailA == <<"a", "@">>
EmailB == <<"@">>
EmailC == <<"c", "@", "d">>
EmailNoAt == <<"a">>
EmailEmpty == <<>>
NameJo == <<"J", "o">>
NameBlank == <<" ", " ">>
NameNew == <<"N", "e", "w">>
NameShort == <<"J">>
NameEmpty == <<>>

\* (email, name, caller) of the Create requests: the create_user route
\* ("http", behind the UserCreate schema) or a caller of
\* CreateUserUseCase.execute itself ("direct")
CreateInputs == {<<EmailA, NameJo, "http">>, <<EmailB, NameJo, "http">>,
                 <<EmailNoAt, NameJo, "http">>, <<EmailA, NameShort, "http">>,
                 <<EmailA, NameShort, "direct">>}
\* (email, name, is_active) of the UserUpdate bodies
UpdateInputs == {<<Absent, NameNew, "None">>, <<EmailB, Absent, "None">>,
                 <<Absent, Absent, "false">>, <<EmailNoAt, Absent, "None">>,
                 <<Absent, NameShort, "None">>}
\* user_id of the Get requests, and of the Update and Delete requests
IdInputs == {1, 4}
WriteIdInputs == {1}
SkipInputs == {2}
LimitInputs == {2}

NoUser == [id |-> None, email |-> <<>>, name |-> <<>>, is_active |-> FALSE,
           created_at |-> None]
NoWrite == [op |-> "none", old |-> NoUser, row |-> NoUser]

\* no credentials, and get_current_user not called
NoToken == [claims |-> <<>>, key |-> "none"]
NoAuth == [out |-> "none", payload |-> <<>>]

Row(i, e, n, a, t) == [id |-> i, email |-> e, name |-> n, is_active |-> a,
                        created_at |-> t]

\* stores the service can hold when the requests of a run arrive: none or
\* three users (a store of one user is what a Create leaves of the empty one)
Store1 == {Row(1, EmailA, NameJo, TRUE, 1)}
Store3 == {Row(1, EmailA, NameJo, TRUE, 1), Row(2, EmailB, NameBlank, TRUE, 1),
           Row(3, EmailC, NameJo, FALSE, 1)}
InitStores == {{}, Store3}

Min(a, b) == IF a < b THEN a ELSE b
Max(a, b) == IF a > b THEN a ELSE b

\* db .. deleted: the service; entity, outs: one User object and the outcomes
\* of the validate() calls made on it since it was last assigned to; token,
\* auth: the bearer token a client holds and the outcome of get_current_user
\* on it
VARIABLES db, nextId, now, req, started, deleted, entity, outs, token, auth

vars == <<db, nextId, now, req, started, deleted, entity, outs, token, auth>>

(* ------------------------------ User entity ---------------------------- *)
Contains(s, c) == \E i \in 1..Len(s) : s[i] = c

\* validate that only rejects the empty email
validate_EmptyOnly(u) ==
    IF Len(u.email) = 0 THEN "InvalidEmailError"
    ELSE IF Len(u.name) = 0 \/ Len(u.name) < 2 THEN "InvalidNameError"
    ELSE "ok"

\* validate that only rejects the empty name
validate_NoShort(u) ==
    IF Len(u.email) = 0 \/ ~Contains(u.email, "@") THEN "InvalidEmailError"
    ELSE IF Len(u.name) = 0 THEN "InvalidNameError"
    ELSE "ok"

\* validate that measures the name without its spaces
validate_Trimmed(u) ==
    IF Len(u.email) = 0 \/ ~Contains(u.email, "@") THEN "InvalidEmailError"
    ELSE IF Len(SelectSeq(u.name, LAMBDA c : c /= " ")) < 2 THEN "InvalidNameError"
    ELSE "ok"

\* validate without the email check
validate_NameOnly(u) ==
    IF Len(u.name) = 0 \/ Len(u.name) < 2 THEN "InvalidNameError" ELSE "ok"

\* User.validate: the failure it raises, or "ok"
validate(u) ==
    IF Len(u.email) = 0 \/ ~Contains(u.email, "@") THEN "InvalidEmailError"
    ELSE IF Len(u.name) = 0 \/ Len(u.name) < 2 THEN "InvalidNameError"
    ELSE "ok"

(* --------------------------- exception handlers ------------------------ *)
\* the classes of an exception, most specific first: the four domain
\* failures derive from DomainError
DomainErrors == {"InvalidEmailError", "InvalidNameError", "UserNotFoundError",
                 "EmailAlreadyExistsError", "DomainError"}
Mro(exc) ==
    IF exc \in DomainErrors \ {"DomainError"}
    THEN <<exc, "DomainError", "Exception">>
    ELSE <<exc, "Exception">>

\* the handlers of main.py without the one for UserNotFoundError
Handlers_NoNotFound ==
    [c \in {"InvalidEmailError", "InvalidNameError", "EmailAlreadyExistsError",
            "DomainError", "RequestValidationError"} |->
        CASE c = "EmailAlreadyExistsError" -> 409
          [] c = "RequestValidationError" -> 422
          [] OTHER -> 400]

\* the registered exception handlers: class -> status of the response
\* (RequestValidationError is answered by the framework with 422)
Handlers ==
    [c \in {"InvalidEmailError", "InvalidNameError", "UserNotFoundError",
            "EmailAlreadyExistsError", "DomainError", "RequestValidationError"} |->
        CASE c = "UserNotFoundError" -> 404
          [] c = "EmailAlreadyExistsError" -> 409
          [] c = "RequestValidationError" -> 422
          [] OTHER -> 400]

\* the handler of the most specific class of the exception that has one;
\* an exception with no handler (a storage error) ends as 500
ExceptionStatus(exc) ==
    LET handled == {k \in 1..Len(Mro(exc)) : Mro(exc)[k] \in DOMAIN Handlers}
    IN IF handled = {} THEN 500
       ELSE Handlers[Mro(exc)[CHOOSE k \in handled : \A j \in handled : k <= j]]

\* status of the response for an outcome
HttpStatus(out, okStatus) ==
    IF out = "ok" THEN okStatus ELSE ExceptionStatus(out)

\* status_code of the routes
OkStatus(kind) ==
    CASE kind = "Create" -> 201
      [] kind = "Delete" -> 204
      [] OTHER -> 200

(* ------------------------------ repository ----------------------------- *)
\* select(UserModel).where(UserModel.id == user_id): the matching rows
get_by_id(table, user_id) == {r \in table : r.id = user_id}
\* get_by_email filtering on the wrong column
get_by_email_ByName(table, email) == {r \in table : r.name = email}
\* select(UserModel).where(UserModel.email == email)
get_by_email(table, email) == {r \in table : r.email = email}

\* _to_model + INSERT on a table whose created_at has no default
_to_model_NoDefault(u, seqId, t) ==
    Row(IF u.id /= None THEN u.id ELSE seqId, u.email, u.name, u.is_active,
        u.created_at)

\* _to_model + INSERT: id from the sequence and created_at from now() when
\* the entity leaves them unset
_to_model(u, seqId, t) ==
    Row(IF u.id /= None THEN u.id ELSE seqId, u.email, u.name, u.is_active,
        IF u.created_at /= None THEN u.created_at ELSE t)

\* the update branch of save without the name assignment
SetFields_NoName(model, u) ==
    [model EXCEPT !.email = u.email, !.is_active = u.is_active]
\* the update branch of save without the is_active assignment
SetFields_NoActive(model, u) ==
    [model EXCEPT !.email = u.email, !.name = u.name]
\* the update branch of save: email, name and is_active are overwritten
SetFields(model, u) ==
    [model EXCEPT !.email = u.email, !.name = u.name, !.is_active = u.is_active]

(* ------------------------------ users table ---------------------------- *)
\* the users table without unique=True on email
UniqueOk_PkOnly(others, r) == \A o \in others : o.id /= r.id

\* UNIQUE(email) and PRIMARY KEY(id): may row r be written next to the rows
\* of others
UniqueOk(others, r) ==
    /\ \A o \in others : o.email /= r.email
    /\ \A o \in others : o.id /= r.id

\* rows and keys an uncommitted write of request q holds
LockedIds(q) ==
    CASE req[q].pend.op = "upd" -> {req[q].pend.old.id}
      [] req[q].pend.op = "del" -> {req[q].pend.old.id}
      [] OTHER -> {}
LockedEmails(q) ==
    CASE req[q].pend.op = "ins" -> {req[q].pend.row.email}
      [] req[q].pend.op = "upd" -> {req[q].pend.old.email, req[q].pend.row.email}
      [] req[q].pend.op = "del" -> {req[q].pend.old.email}
      [] OTHER -> {}
InsertedIds(q) == IF req[q].pend.op = "ins" THEN {req[q].pend.row.id} ELSE {}

\* an INSERT of row r by p waits for an uncommitted write on its keys
InsertWaits(p, r) ==
    \E q \in Procs \ {p} :
        r.email \in LockedEmails(q) \/ r.id \in LockedIds(q) \/ r.id \in InsertedIds(q)
\* an UPDATE by p of row id i to email e waits for an uncommitted write of
\* that row or on that email
UpdateWaits(p, i, e) ==
    \E q \in Procs \ {p} : i \in LockedIds(q) \/ e \in LockedEmails(q)
\* a DELETE by p of row id i waits for an uncommitted write of that row
DeleteWaits(p, i) == \E q \in Procs \ {p} : i \in LockedIds(q)

\* the table after the write w is committed
Apply(table, w) ==
    CASE w.op = "ins" -> table \cup {w.row}
      [] w.op = "upd" -> (table \ {w.old}) \cup {w.row}
      [] w.op = "del" -> table \ {w.old}
      [] OTHER -> table

(* ------------------------------- requests ------------------------------ *)
Idle == [kind |-> "idle", via |-> "none", pc |-> "done", email |-> <<>>, name |-> <<>>,
         active |-> "None", id |-> None, args |-> <<>>, skip |-> 0, limit |-> 0,
         read |-> NoUser, user |-> NoUser, pend |-> NoWrite, out |-> "none",
         errStr |-> <<>>, errId |-> None,
         retUser |-> NoUser, retList |-> <<>>, retBool |-> FALSE,
         view |-> {}, calls |-> <<>>, sess |-> "none", status |-> 0]

Init ==
    /\ db \in InitStores
    /\ nextId = Cardinality(db) + 1
    /\ now = 2
    /\ req = [p \in Procs |-> Idle]
    /\ started = 0
    /\ deleted = {}
    /\ entity = NoUser
    /\ outs = <<>>
    /\ token = NoToken
    /\ auth = NoAuth

\* the handler raised: get_session rolls back
Raise(r, exc) == [r EXCEPT !.out = exc, !.pc = "rollback"]
\* InvalidEmailError(email), InvalidNameError(name), EmailAlreadyExistsError(email)
RaiseStr(r, exc, s) == [r EXCEPT !.out = exc, !.errStr = s, !.pc = "rollback"]
\* UserNotFoundError(user_id)
RaiseId(r, exc, i) == [r EXCEPT !.out = exc, !.errId = i, !.pc = "rollback"]
\* user.validate() raising with the offending field
RaiseInvalid(r, u) ==
    RaiseStr(r, validate(u), IF validate(u) = "InvalidEmailError" THEN u.email ELSE u.name)

\* A request arrives with a session of its own (get_session, yield) and
\* runs to the return of its first storage call in one step: nothing it does
\* before that call is visible to another request. The requests in flight
\* are told apart by their sessions only, so a new one takes the first free
\* place.
Arrives(p) ==
    /\ req[p].pc = "done" /\ started < MaxReqs
    /\ \A q \in Procs : q < p => req[q].pc /= "done"

\* UserCreate, UserUpdate: name has min_length=2 (and may be left out of a
\* UserUpdate), checked before the route function runs
SchemaOk_NoMin(n) == n = Absent \/ Len(n) >= 0

SchemaOk(n) == n = Absent \/ Len(n) >= 2

\* create_user: a body the UserCreate schema rejects is answered with 422
\* before the route function runs; otherwise CreateUserUseCase.execute:
\* build the entity, validate it,
\* existing = await repository.get_by_email(email)
CreateGetByEmail(p) ==
    /\ Arrives(p)
    /\ \E in \in CreateInputs :
        LET e == in[1]
            n == in[2]
            user == [NoUser EXCEPT !.email = e, !.name = n, !.is_active = TRUE]
            r == [Idle EXCEPT !.kind = "Create", !.via = in[3], !.email = e,
                              !.name = n, !.sess = "open"]
            r0 == [r EXCEPT !.user = user, !.calls = <<"validate">>]
            r1 == [r0 EXCEPT !.calls = Append(@, "get_by_email")]
        IN req' = [req EXCEPT ![p] =
                     IF in[3] = "http" /\ ~SchemaOk(n)
                     THEN Raise(r, "RequestValidationError")
                     ELSE IF validate(user) /= "ok" THEN RaiseInvalid(r0, user)
                     ELSE IF get_by_email(db, e) /= {}
                          THEN RaiseStr(r1, "EmailAlreadyExistsError", e)
                          ELSE [r1 EXCEPT !.pc = "save"]]
    /\ started' = started + 1
    /\ UNCHANGED <<token, auth, entity, outs, db, nextId, now, deleted>>

\* CreateUserUseCase.execute calling save again when the INSERT is rejected
CreateSave_Retries(p) ==
    /\ req[p].kind = "Create" /\ req[p].pc = "save"
    /\ LET model == _to_model(req[p].user, nextId, now)
           r0 == [req[p] EXCEPT !.calls = Append(@, "save")]
       IN /\ ~InsertWaits(p, model)
          /\ now' = Min(now + 1, MaxTime)
          /\ nextId' = nextId + 1
          /\ req' = [req EXCEPT ![p] =
                       IF UniqueOk(db, model)
                       THEN [r0 EXCEPT !.pend = [op |-> "ins", old |-> NoUser, row |-> model],
                                       !.retUser = model, !.out = "ok", !.pc = "commit"]
                       ELSE Raise([r0 EXCEPT !.calls = Append(@, "save")], "IntegrityError")]
    /\ UNCHANGED <<token, auth, entity, outs, db, started, deleted>>

\* SQLUserRepository.save, id unset: add, flush (INSERT), refresh
CreateSave(p) ==
    /\ req[p].kind = "Create" /\ req[p].pc = "save"
    /\ LET model == _to_model(req[p].user, nextId, now)
           r0 == [req[p] EXCEPT !.calls = Append(@, "save")]
       IN /\ ~InsertWaits(p, model)
          /\ now' = Min(now + 1, MaxTime)
          /\ nextId' = nextId + 1
          /\ req' = [req EXCEPT ![p] =
                       IF UniqueOk(db, model)
                       THEN [r0 EXCEPT !.pend = [op |-> "ins", old |-> NoUser, row |-> model],
                                       !.retUser = model, !.out = "ok", !.pc = "commit"]
                       ELSE Raise(r0, "IntegrityError")]
    /\ UNCHANGED <<token, auth, entity, outs, db, started, deleted>>

\* GetUserUseCase.execute without the not-found check: the absent user is
\* returned as a value
GetGetById_NoCheck(p) ==
    /\ Arrives(p)
    /\ \E i \in IdInputs :
        LET found == get_by_id(db, i)
        IN req' = [req EXCEPT ![p] =
                     [Idle EXCEPT !.kind = "Get", !.id = i, !.sess = "open",
                                  !.calls = <<"get_by_id">>,
                                  !.retUser = IF found = {} THEN NoUser
                                              ELSE CHOOSE m \in found : TRUE,
                                  !.out = "ok", !.pc = "commit"]]
    /\ started' = started + 1
    /\ UNCHANGED <<token, auth, entity, outs, db, nextId, now, deleted>>

\* get_user -> GetUserUseCase.execute: user = await
\* repository.get_by_id(user_id); if not user: raise UserNotFoundError
GetGetById(p) ==
    /\ Arrives(p)
    /\ \E i \in IdInputs :
        LET r0 == [Idle EXCEPT !.kind = "Get", !.id = i, !.sess = "open",
                               !.calls = <<"get_by_id">>]
            found == get_by_id(db, i)
        IN req' = [req EXCEPT ![p] =
                     IF found = {} THEN RaiseId(r0, "UserNotFoundError", i)
                     ELSE [r0 EXCEPT !.retUser = CHOOSE m \in found : TRUE,
                                     !.out = "ok", !.pc = "commit"]]
    /\ started' = started + 1
    /\ UNCHANGED <<token, auth, entity, outs, db, nextId, now, deleted>>

\* the orders in which the engine may return the rows of a table
Orders(table) ==
    {s \in [1..Cardinality(table) -> table] :
        \A i, j \in 1..Cardinality(table) : i /= j => s[i] /= s[j]}

\* OFFSET skip LIMIT limit applied to the rows in the order the engine
\* returns them
Window(rows, skip, limit) ==
    SubSeq(rows, skip + 1, Min(Len(rows), skip + limit))

\* select(UserModel).offset(skip).limit(limit): the statement has no
\* ORDER BY, so the engine returns the rows in an order of its choosing
list_all(table, skip, limit) ==
    {Window(rows, skip, limit) : rows \in Orders(table)}

\* execute(self, skip: int = 0, limit: int = 100): the arguments a caller
\* gives, <<>> for one it leaves out
DefaultSkip == 0
DefaultLimit == 100
ListArgs ==
    {<<<<>>, <<l>>>> : l \in LimitInputs} \cup {<<<<s>>, <<>>>> : s \in SkipInputs}
Default(arg, dflt) == IF arg = <<>> THEN dflt ELSE arg[1]

\* ListUsersUseCase.execute with a page size of at most one row
ListListAll_Clamped(p) ==
    /\ Arrives(p)
    /\ \E a \in ListArgs :
        LET s == Default(a[1], DefaultSkip)
            l == Min(Default(a[2], DefaultLimit), 1)
        IN \E result \in list_all(db, s, l) :
            req' = [req EXCEPT ![p] =
                      [Idle EXCEPT !.kind = "List", !.args = a, !.skip = s, !.limit = l,
                                   !.sess = "open", !.calls = <<"list_all">>,
                                   !.retList = result, !.view = db,
                                   !.out = "ok", !.pc = "commit"]]
    /\ started' = started + 1
    /\ UNCHANGED <<token, auth, entity, outs, db, nextId, now, deleted>>

\* list_users -> ListUsersUseCase.execute: return await
\* repository.list_all(skip=skip, limit=limit)
ListListAll(p) ==
    /\ Arrives(p)
    /\ \E a \in ListArgs :
        LET s == Default(a[1], DefaultSkip)
            l == Default(a[2], DefaultLimit)
        IN \E result \in list_all(db, s, l) :
            req' = [req EXCEPT ![p] =
                      [Idle EXCEPT !.kind = "List", !.args = a, !.skip = s, !.limit = l,
                                   !.sess = "open", !.calls = <<"list_all">>,
                                   !.retList = result, !.view = db,
                                   !.out = "ok", !.pc = "commit"]]
    /\ started' = started + 1
    /\ UNCHANGED <<token, auth, entity, outs, db, nextId, now, deleted>>

\* DeleteUserUseCase.execute calling repository.delete without looking the
\* user up first
DeleteGetById_NoCheck(p) ==
    /\ Arrives(p)
    /\ \E i \in WriteIdInputs :
        req' = [req EXCEPT ![p] = [Idle EXCEPT !.kind = "Delete", !.id = i, !.sess = "open",
                                               !.calls = <<"get_by_id">>, !.pc = "delete"]]
    /\ started' = started + 1
    /\ UNCHANGED <<token, auth, entity, outs, db, nextId, now, deleted>>

\* delete_user -> DeleteUserUseCase.execute: user = await
\* repository.get_by_id(user_id); if not user: raise UserNotFoundError
DeleteGetById(p) ==
    /\ Arrives(p)
    /\ \E i \in WriteIdInputs :
        LET r0 == [Idle EXCEPT !.kind = "Delete", !.id = i, !.sess = "open",
                               !.calls = <<"get_by_id">>]
        IN req' = [req EXCEPT ![p] =
                     IF get_by_id(db, i) = {} THEN RaiseId(r0, "UserNotFoundError", i)
                     ELSE [r0 EXCEPT !.read = CHOOSE m \in get_by_id(db, i) : TRUE,
                                     !.pc = "delete"]]
    /\ started' = started + 1
    /\ UNCHANGED <<token, auth, entity, outs, db, nextId, now, deleted>>

\* SQLUserRepository.delete: the SELECT; no row returns False
DeleteSelect(p) ==
    /\ req[p].kind = "Delete" /\ req[p].pc = "delete"
    /\ LET r0 == [req[p] EXCEPT !.calls = Append(@, "delete")]
       IN req' = [req EXCEPT ![p] =
                    IF get_by_id(db, req[p].id) = {}
                    THEN [r0 EXCEPT !.retBool = FALSE, !.out = "ok", !.pc = "commit"]
                    ELSE [r0 EXCEPT !.pc = "delete_flush"]]
    /\ UNCHANGED <<token, auth, entity, outs, db, nextId, now, started, deleted>>

\* SQLUserRepository.delete: session.delete(model), flush (DELETE), return
\* True; a DELETE that matches no row any more is not an error
DeleteFlush(p) ==
    /\ req[p].kind = "Delete" /\ req[p].pc = "delete_flush"
    /\ ~DeleteWaits(p, req[p].id)
    /\ LET found == get_by_id(db, req[p].id)
           w == IF found = {} THEN NoWrite
                ELSE [op |-> "del", old |-> CHOOSE m \in found : TRUE, row |-> NoUser]
       IN req' = [req EXCEPT ![p].pend = w, ![p].retBool = TRUE,
                             ![p].out = "ok", ![p].pc = "commit"]
    /\ UNCHANGED <<token, auth, entity, outs, db, nextId, now, started, deleted>>

\* update_user lines 115-120: the fields the body provides
ApplyUpdate(u, e, n, a) ==
    [u EXCEPT !.email = IF e /= Absent THEN e ELSE @,
              !.name = IF n /= Absent THEN n ELSE @,
              !.is_active = IF a /= "None" THEN (a = "true") ELSE @]

\* update_user without the call of user.validate()
UpdateGetById_NoValidate(p) ==
    /\ Arrives(p)
    /\ \E i \in WriteIdInputs, in \in UpdateInputs :
        LET r0 == [Idle EXCEPT !.kind = "Update", !.id = i, !.email = in[1],
                               !.name = in[2], !.active = in[3], !.sess = "open"]
            r1 == [r0 EXCEPT !.calls = <<"get_by_id">>]
            found == get_by_id(db, i)
            user == ApplyUpdate(CHOOSE m \in found : TRUE, in[1], in[2], in[3])
            r2 == [r1 EXCEPT !.read = CHOOSE m \in found : TRUE, !.user = user]
        IN req' = [req EXCEPT ![p] =
                     IF ~SchemaOk(in[2]) THEN Raise(r0, "RequestValidationError")
                     ELSE IF found = {} THEN RaiseId(r1, "UserNotFoundError", i)
                     ELSE [r2 EXCEPT !.pc = "save"]]
    /\ started' = started + 1
    /\ UNCHANGED <<token, auth, entity, outs, db, nextId, now, deleted>>

\* update_user building the entity from the body without GetUserUseCase
UpdateGetById_NoCheck(p) ==
    /\ Arrives(p)
    /\ \E i \in WriteIdInputs, in \in UpdateInputs :
        LET r0 == [Idle EXCEPT !.kind = "Update", !.id = i, !.email = in[1],
                               !.name = in[2], !.active = in[3], !.sess = "open"]
            found == get_by_id(db, i)
            base == IF found = {} THEN [NoUser EXCEPT !.id = i, !.is_active = TRUE]
                    ELSE CHOOSE m \in found : TRUE
            user == ApplyUpdate(base, in[1], in[2], in[3])
            r2 == [r0 EXCEPT !.read = base, !.user = user,
                             !.calls = <<"get_by_id", "validate">>]
        IN req' = [req EXCEPT ![p] =
                     IF ~SchemaOk(in[2]) THEN Raise(r0, "RequestValidationError")
                     ELSE IF validate(user) /= "ok" THEN RaiseInvalid(r2, user)
                     ELSE [r2 EXCEPT !.pc = "save"]]
    /\ started' = started + 1
    /\ UNCHANGED <<token, auth, entity, outs, db, nextId, now, deleted>>

\* update_user: a body the UserUpdate schema rejects is answered with 422
\* before the handler runs; otherwise GetUserUseCase.execute, then set the
\* provided fields and validate, up to the await of repository.save
UpdateGetById(p) ==
    /\ Arrives(p)
    /\ \E i \in WriteIdInputs, in \in UpdateInputs :
        LET r0 == [Idle EXCEPT !.kind = "Update", !.id = i, !.email = in[1],
                               !.name = in[2], !.active = in[3], !.sess = "open"]
            r1 == [r0 EXCEPT !.calls = <<"get_by_id">>]
            found == get_by_id(db, i)
            user == ApplyUpdate(CHOOSE m \in found : TRUE, in[1], in[2], in[3])
            r2 == [r1 EXCEPT !.read = CHOOSE m \in found : TRUE, !.user = user,
                             !.calls = Append(@, "validate")]
        IN req' = [req EXCEPT ![p] =
                     IF ~SchemaOk(in[2]) THEN Raise(r0, "RequestValidationError")
                     ELSE IF found = {} THEN RaiseId(r1, "UserNotFoundError", i)
                     ELSE IF validate(user) /= "ok" THEN RaiseInvalid(r2, user)
                     ELSE [r2 EXCEPT !.pc = "save"]]
    /\ started' = started + 1
    /\ UNCHANGED <<token, auth, entity, outs, db, nextId, now, deleted>>

\* SQLUserRepository.save, id set: the SELECT of the row to update
UpdateSaveSelect(p) ==
    /\ req[p].kind = "Update" /\ req[p].pc = "save"
    /\ req' = [req EXCEPT ![p].calls = Append(@, "save"),
                          ![p].pc = IF get_by_id(db, req[p].user.id) /= {}
                                    THEN "save_update" ELSE "save_insert"]
    /\ UNCHANGED <<token, auth, entity, outs, db, nextId, now, started, deleted>>

\* save, row found, where only the fields of the request body are set on the
\* row as it is stored now
UpdateSaveFlush_Merges(p) ==
    /\ req[p].kind = "Update" /\ req[p].pc = "save_update"
    /\ ~UpdateWaits(p, req[p].user.id, req[p].user.email)
    /\ LET found == get_by_id(db, req[p].user.id)
           old == CHOOSE m \in found : TRUE
           model == ApplyUpdate(old, req[p].email, req[p].name, req[p].active)
       IN req' = [req EXCEPT ![p] =
                    IF found = {} THEN Raise(req[p], "StaleDataError")
                    ELSE IF ~UniqueOk(db \ {old}, model) THEN Raise(req[p], "IntegrityError")
                    ELSE [req[p] EXCEPT !.pend = [op |-> "upd", old |-> old, row |-> model],
                                        !.retUser = model, !.out = "ok", !.pc = "commit"]]
    /\ UNCHANGED <<token, auth, entity, outs, db, nextId, now, started, deleted>>

\* SQLUserRepository.save, row found: set email, name and is_active, flush
\* (UPDATE), refresh; an UPDATE that matches no row any more is an error
UpdateSaveFlush(p) ==
    /\ req[p].kind = "Update" /\ req[p].pc = "save_update"
    /\ ~UpdateWaits(p, req[p].user.id, req[p].user.email)
    /\ LET found == get_by_id(db, req[p].user.id)
           old == CHOOSE m \in found : TRUE
           model == SetFields(old, req[p].user)
       IN req' = [req EXCEPT ![p] =
                    IF found = {} THEN Raise(req[p], "StaleDataError")
                    ELSE IF ~UniqueOk(db \ {old}, model) THEN Raise(req[p], "IntegrityError")
                    ELSE [req[p] EXCEPT !.pend = [op |-> "upd", old |-> old, row |-> model],
                                        !.retUser = model, !.out = "ok", !.pc = "commit"]]
    /\ UNCHANGED <<token, auth, entity, outs, db, nextId, now, started, deleted>>

\* save, row not found, where the INSERT takes its id from the sequence
UpdateSaveInsert_NewId(p) ==
    /\ req[p].kind = "Update" /\ req[p].pc = "save_insert"
    /\ LET model == _to_model([req[p].user EXCEPT !.id = None], nextId, now)
       IN /\ ~InsertWaits(p, model)
          /\ req' = [req EXCEPT ![p] =
                       IF UniqueOk(db, model)
                       THEN [req[p] EXCEPT !.pend = [op |-> "ins", old |-> NoUser, row |-> model],
                                           !.retUser = model, !.out = "ok", !.pc = "commit"]
                       ELSE Raise(req[p], "IntegrityError")]
    /\ UNCHANGED <<token, auth, entity, outs, db, nextId, now, started, deleted>>

\* SQLUserRepository.save, row not found: _to_model, add, flush (INSERT
\* with the entity's id and created_at), refresh
UpdateSaveInsert(p) ==
    /\ req[p].kind = "Update" /\ req[p].pc = "save_insert"
    /\ LET model == _to_model(req[p].user, nextId, now)
       IN /\ ~InsertWaits(p, model)
          /\ req' = [req EXCEPT ![p] =
                       IF UniqueOk(db, model)
                       THEN [req[p] EXCEPT !.pend = [op |-> "ins", old |-> NoUser, row |-> model],
                                           !.retUser = model, !.out = "ok", !.pc = "commit"]
                       ELSE Raise(req[p], "IntegrityError")]
    /\ UNCHANGED <<token, auth, entity, outs, db, nextId, now, started, deleted>>

\* get_session after the handler returned: await session.commit()
Commit(p) ==
    /\ req[p].pc = "commit"
    /\ db' = Apply(db, req[p].pend)
    /\ deleted' = IF req[p].kind = "Delete" /\ req[p].retBool
                  THEN deleted \cup {req[p].id} ELSE deleted
    /\ req' = [req EXCEPT ![p].pend = NoWrite, ![p].sess = "committed",
                          ![p].status = OkStatus(req[p].kind), ![p].pc = "close"]
    /\ UNCHANGED <<token, auth, entity, outs, nextId, now, started>>

\* a commit that raises after the flushed write has been stored
CommitFails_Stored(p) ==
    /\ req[p].pc = "commit"
    /\ req[p].pend.op /= "none"
    /\ db' = Apply(db, req[p].pend)
    /\ req' = [req EXCEPT ![p].out = "DBAPIError", ![p].sess = "commit_failed",
                          ![p].pc = "rollback"]
    /\ UNCHANGED <<token, auth, entity, outs, nextId, now, started, deleted>>

\* get_session: await session.commit() raises (the engine fails the COMMIT of
\* a transaction that wrote); nothing is stored and the except branch runs
CommitFails(p) ==
    /\ req[p].pc = "commit"
    /\ req[p].pend.op /= "none"
    /\ req' = [req EXCEPT ![p].out = "DBAPIError", ![p].sess = "commit_failed",
                          ![p].pc = "rollback"]
    /\ UNCHANGED <<token, auth, entity, outs, db, nextId, now, started, deleted>>

\* get_session without the except branch: the session is closed by the
\* context manager with the flushed writes committed
Rollback_Commits(p) ==
    /\ req[p].pc = "rollback"
    /\ db' = Apply(db, req[p].pend)
    /\ req' = [req EXCEPT ![p].pend = NoWrite, ![p].sess = "committed",
                          ![p].status = ExceptionStatus(req[p].out), ![p].pc = "close"]
    /\ UNCHANGED <<token, auth, entity, outs, nextId, now, started, deleted>>

\* get_session when an exception escaped the handler or the commit: await
\* session.rollback(); raise, and the exception reaches the handlers
Rollback(p) ==
    /\ req[p].pc = "rollback"
    /\ req' = [req EXCEPT ![p].pend = NoWrite, ![p].sess = "rolledback",
                          ![p].status = ExceptionStatus(req[p].out), ![p].pc = "close"]
    /\ UNCHANGED <<token, auth, entity, outs, db, nextId, now, started, deleted>>

\* get_session, finally: await session.close(); the response has been
\* handed over and the request is gone
Close(p) ==
    /\ req[p].pc = "close"
    /\ req' = [req EXCEPT ![p] = Idle]
    /\ UNCHANGED <<token, auth, entity, outs, db, nextId, now, started, deleted>>

Next ==
    \E p \in Procs :
        \/ CreateGetByEmail(p)
        \/ CreateSave(p)
        \/ GetGetById(p)
        \/ ListListAll(p)
        \/ DeleteGetById(p)
        \/ DeleteSelect(p)
        \/ DeleteFlush(p)
        \/ UpdateGetById(p)
        \/ UpdateSaveSelect(p)
        \/ UpdateSaveFlush(p)
        \/ UpdateSaveInsert(p)
        \/ Commit(p)
        \/ CommitFails(p)
        \/ Rollback(p)
        \/ Close(p)

Spec == Init /\ [][Next]_vars

(* ------------------------- the User object alone ----------------------- *)
Chars == {"a", "@", " "}
Strings == UNION {[1..n -> Chars] : n \in 0..MaxLen}

\* what a call of validate() raises: the exception with its argument, or
\* nothing
Raised(u) ==
    [exc |-> validate(u),
     arg |-> CASE validate(u) = "InvalidEmailError" -> u.email
               [] validate(u) = "InvalidNameError" -> u.name
               [] OTHER -> <<>>]

\* User(id, email, name): any strings, is_active and created_at defaulted
ValidateInit ==
    /\ db = {} /\ nextId = 1 /\ now = 2 /\ req = [p \in Procs |-> Idle]
    /\ started = 0 /\ deleted = {}
    /\ \E i \in {None, 1}, e \in Strings, n \in Strings :
          entity = [NoUser EXCEPT !.id = i, !.email = e, !.name = n, !.is_active = TRUE]
    /\ outs = <<>>
    /\ token = NoToken
    /\ auth = NoAuth

\* validate() that trims the name in place before checking it
ValidateCall_Trims ==
    /\ Len(outs) < MaxCalls
    /\ entity' = [entity EXCEPT !.name = SelectSeq(@, LAMBDA c : c /= " ")]
    /\ outs' = Append(outs, Raised(entity'))
    /\ UNCHANGED <<token, auth, db, nextId, now, req, started, deleted>>

\* user.validate(): reads email and name, assigns nothing
ValidateCall ==
    /\ Len(outs) < MaxCalls
    /\ outs' = Append(outs, Raised(entity))
    /\ UNCHANGED <<token, auth, db, nextId, now, req, started, deleted, entity>>

\* user.email = ... or user.name = ... (update_user): the object is modified
Assign ==
    /\ \E s \in Strings :
          \/ entity' = [entity EXCEPT !.email = s]
          \/ entity' = [entity EXCEPT !.name = s]
    /\ entity' /= entity
    /\ outs' = <<>>
    /\ UNCHANGED <<token, auth, db, nextId, now, req, started, deleted>>

ValidateNext == ValidateCall \/ Assign

ValidateSpec == ValidateInit /\ [][ValidateNext]_vars

(* ------------------------------ JWT helpers ---------------------------- *)
JWT_SECRET_KEY == "dev-secret-key-change-in-production"
ACCESS_TOKEN_EXPIRE_MINUTES == 15
REFRESH_TOKEN_EXPIRE_DAYS == 7

\* payload data of the callers: a subject, and data that brings a type and
\* an exp of its own
DataInputs == {("sub" :> "u1"),
               ("sub" :> "u1" @@ "type" :> "refresh" @@ "role" :> "admin"),
               ("sub" :> "u2" @@ "type" :> "access" @@ "exp" :> 0)}
\* expires_delta in minutes; None and the zero timedelta are both false
DeltaInputs == {None, 5, 0 - 1}

\* jwt.encode(claims, key): the signed token, known by its claims and the key
\* that signed it
encode(claims, key) == [claims |-> claims, key |-> key]

\* to_encode.update({...}): the new entries replace those of the same key
update(to_encode, new) == new @@ to_encode

create_access_token(data, expires_delta, t) ==
    LET expire == IF expires_delta /= None THEN t + expires_delta
                  ELSE t + ACCESS_TOKEN_EXPIRE_MINUTES
    IN encode(update(data, ("exp" :> expire @@ "type" :> "access")), JWT_SECRET_KEY)

create_refresh_token(data, t) ==
    LET expire == t + REFRESH_TOKEN_EXPIRE_DAYS * 24 * 60
    IN encode(update(data, ("exp" :> expire @@ "type" :> "refresh")), JWT_SECRET_KEY)

\* jwt.decode(token, key): JWTError for a token that is not signed with the
\* key (malformed and tampered tokens too) or whose exp has passed
jwt_decode(tok, key, t) ==
    IF tok.key /= key THEN "JWTError"
    ELSE IF "exp" \in DOMAIN tok.claims /\ tok.claims["exp"] < t THEN "JWTError"
    ELSE "ok"

\* decode_token: the payload, or HTTPException 401
decode_token(tok, t) ==
    IF jwt_decode(tok, JWT_SECRET_KEY, t) = "ok"
    THEN [out |-> "payload", payload |-> tok.claims]
    ELSE [out |-> "401", payload |-> <<>>]

\* get_current_user that accepts every token that decodes
get_current_user_AnyType(tok, t) == decode_token(tok, t)

\* get_current_user: decode_token, then 401 unless payload.get("type") is
\* "access"
get_current_user(tok, t) ==
    LET res == decode_token(tok, t)
    IN IF res.out /= "payload" THEN res
       ELSE IF "type" \notin DOMAIN res.payload \/ res.payload["type"] /= "access"
            THEN [out |-> "401", payload |-> <<>>]
            ELSE res

AuthInit ==
    /\ db = {} /\ nextId = 1 /\ req = [p \in Procs |-> Idle]
    /\ started = 0 /\ deleted = {}
    /\ entity = NoUser /\ outs = <<>>
    /\ now = 0
    /\ token = NoToken
    /\ auth = NoAuth

\* a caller issues an access token
CreateAccessToken ==
    /\ \E data \in DataInputs, delta \in DeltaInputs :
          token' = create_access_token(data, delta, now)
    /\ auth' = NoAuth
    /\ UNCHANGED <<db, nextId, now, req, started, deleted, entity, outs>>

\* a caller issues a refresh token
CreateRefreshToken ==
    /\ \E data \in DataInputs : token' = create_refresh_token(data, now)
    /\ auth' = NoAuth
    /\ UNCHANGED <<db, nextId, now, req, started, deleted, entity, outs>>

\* the client holds other credentials: the token altered or signed with
\* another key, text that is no token, or a token of the same key that
\* carries no type
Present ==
    /\ \/ token' = [token EXCEPT !.key = "other"]
       \/ token' = [claims |-> <<>>, key |-> "malformed"]
       \/ token' = encode(("sub" :> "u1" @@ "exp" :> now + ACCESS_TOKEN_EXPIRE_MINUTES),
                          JWT_SECRET_KEY)
    /\ token' /= token
    /\ auth' = NoAuth
    /\ UNCHANGED <<db, nextId, now, req, started, deleted, entity, outs>>

\* time passes
Tick ==
    /\ \E d \in {1, ACCESS_TOKEN_EXPIRE_MINUTES} :
          now + d <= MaxClock /\ now' = now + d
    /\ UNCHANGED <<db, nextId, req, started, deleted, entity, outs, token, auth>>

\* a request with the token in its Authorization header reaches
\* get_current_user
GetCurrentUser ==
    /\ token /= NoToken
    /\ auth' = get_current_user(token, now)
    /\ auth' /= auth
    /\ UNCHANGED <<db, nextId, now, req, started, deleted, entity, outs, token>>

AuthNext ==
    CreateAccessToken \/ CreateRefreshToken \/ Present \/ Tick \/ GetCurrentUser

AuthSpec == AuthInit /\ [][AuthNext]_vars

(* ------------------------------ properties ----------------------------- *)
\* the stored users with email e
WithEmail(table, e) == {r \in table : r.email = e}
\* the stored users with id i
WithId(table, i) == {r \in table : r.id = i}
\* request p takes its first step as a request of that kind; request p
\* takes the step that leaves that position
Starts(p, kind) == req[p].kind = "idle" /\ req'[p].kind = kind
Leaves(p, pc) == req[p].pc = pc /\ req'[p].pc /= pc
\* a request whose handler has ended, before its session is closed
Ended(p) == req[p].pc \in {"commit", "rollback", "close"}

\* the input of a Create passes validation: "@" in a non-empty email, name
\* of two or more characters
ValidInput(e, n) == (\E i \in 1..Len(e) : e[i] = "@") /\ Len(n) >= 2

\* C1 as stated: every Create(email, name) on a store that holds a user with
\* that email fails with EmailAlreadyExists carrying that email and leaves
\* exactly one stored user with that email.
C1_AnyDuplicateCreateFails ==
    [][\A p \in Procs :
        (Starts(p, "Create") /\ CreateGetByEmail(p) /\ WithEmail(db, req'[p].email) /= {}) =>
            /\ req'[p].out = "EmailAlreadyExistsError"
            /\ req'[p].errStr = req'[p].email
            /\ db' = db
            /\ Cardinality(WithEmail(db', req'[p].email)) = 1]_vars

\* C1 amended: a Create whose input passes validate() and whose email is
\* held by a stored user fails with EmailAlreadyExists carrying that email,
\* writes nothing and leaves the store with exactly one user of that email;
\* and once a Create has committed, the store holds its email, so the same
\* Create run again is such a duplicate.
C1_DuplicateCreateFails ==
    [][\A p \in Procs :
        /\ (/\ Starts(p, "Create") /\ CreateGetByEmail(p)
            /\ ValidInput(req'[p].email, req'[p].name)
            /\ WithEmail(db, req'[p].email) /= {}) =>
              /\ req'[p].out = "EmailAlreadyExistsError"
              /\ req'[p].errStr = req'[p].email
              /\ req'[p].pc = "rollback"
              /\ req'[p].pend = NoWrite
              /\ db' = db
              /\ Cardinality(WithEmail(db', req'[p].email)) = 1
        /\ (Leaves(p, "commit") /\ Commit(p) /\ req[p].kind = "Create") =>
              Cardinality(WithEmail(db', req[p].email)) = 1]_vars

\* C1 witness: a Create was refused as a duplicate of a user that an earlier
\* Create of this run stored
C1_Witness ==
    \E p \in Procs :
        /\ req[p].kind = "Create" /\ req[p].out = "EmailAlreadyExistsError"
        /\ \E r \in db : r.email = req[p].email /\ r.created_at >= 2

\* C2: no two stored users have the same email (nor the same id), whatever
\* the interleaving of Create, Update and Delete requests.
C2_EmailUnique ==
    \A r1 \in db : \A r2 \in db :
        (r1.email = r2.email \/ r1.id = r2.id) => r1 = r2

\* C2 witness: two Creates of one email both passed the pre-check and the
\* table refused the second save
C2_Witness ==
    \E p \in Procs :
        /\ req[p].kind = "Create" /\ req[p].out = "IntegrityError"
        /\ Cardinality(WithEmail(db, req[p].email)) = 1

\* C3: Create runs validate, then get_by_email, then save: with an invalid
\* input no repository method is called, and when get_by_email finds a user
\* save is not called.
C3_CreateOrder ==
    \A p \in Procs : req[p].kind = "Create" =>
        /\ \E k \in 0..3 : req[p].calls = SubSeq(<<"validate", "get_by_email", "save">>, 1, k)
        /\ req[p].out \in {"InvalidEmailError", "InvalidNameError"} =>
              req[p].calls = <<"validate">>
        /\ ~ValidInput(req[p].email, req[p].name) =>
              Len(req[p].calls) <= 1 /\ req[p].pc \in {"rollback", "close"}
        /\ req[p].out = "EmailAlreadyExistsError" =>
              req[p].calls = <<"validate", "get_by_email">>

\* C3 witness: one Create stopped at validate, another at get_by_email
C3_Witness ==
    \E p \in Procs : \E q \in Procs :
        /\ req[p].kind = "Create" /\ req[p].out = "InvalidEmailError"
        /\ req[p].calls = <<"validate">>
        /\ req[q].kind = "Create" /\ req[q].out = "EmailAlreadyExistsError"

\* C4: a Create whose save the table rejects (the duplicate was committed
\* after the pre-check passed) ends with EmailAlreadyExists and status 409,
\* as a sequential duplicate Create does.
C4_ViolationIsConflict ==
    \A p \in Procs :
        (/\ req[p].kind = "Create" /\ Ended(p) /\ Len(req[p].calls) = 3
         /\ req[p].out \notin {"ok", "DBAPIError"}) =>
            /\ req[p].out = "EmailAlreadyExistsError"
            /\ HttpStatus(req[p].out, 201) = 409

\* C5: Get(id) returns the stored user whose id is id when there is one and
\* fails with UserNotFound carrying id otherwise; and the commit of a Create
\* stores the returned id with the email and name of the request, which is
\* what a later Get of that id reads.
C5_GetReturnsStored ==
    [][\A p \in Procs :
        /\ Starts(p, "Get") /\ GetGetById(p) =>
              IF WithId(db, req'[p].id) /= {}
              THEN /\ req'[p].out = "ok"
                   /\ req'[p].retUser \in db
                   /\ req'[p].retUser.id = req'[p].id
              ELSE /\ req'[p].out = "UserNotFoundError"
                   /\ req'[p].errId = req'[p].id
                   /\ req'[p].retUser = NoUser
        /\ (Leaves(p, "commit") /\ Commit(p) /\ req[p].kind = "Create") =>
              \E r \in db' :
                  /\ WithId(db', req[p].retUser.id) = {r}
                  /\ r.email = req[p].email /\ r.name = req[p].name]_vars

\* C5 witness: a Get returned a user that a Create of this run stored
C5_Witness ==
    \E p \in Procs :
        /\ req[p].kind = "Get" /\ req[p].out = "ok"
        /\ req[p].retUser.id = req[p].id /\ req[p].retUser.created_at >= 2

\* C6: once a Delete(id) has returned true and committed, no user with
\* that id is stored any more, so that every later Get(id) fails with
\* UserNotFound; a Delete of a missing id fails with UserNotFound without
\* calling delete and leaves the store unchanged.
C6_DeletedStaysDeleted ==
    [][\A p \in Procs :
        /\ \A i \in deleted' : get_by_id(db', i) = {}
        /\ (Starts(p, "Get") /\ GetGetById(p) /\ req'[p].id \in deleted) =>
              req'[p].out = "UserNotFoundError"
        /\ (Starts(p, "Delete") /\ DeleteGetById(p) /\ WithId(db, req'[p].id) = {}) =>
              /\ req'[p].out = "UserNotFoundError" /\ req'[p].errId = req'[p].id
              /\ req'[p].calls = <<"get_by_id">> /\ db' = db]_vars

C8_Pages ==
    \A p \in Procs : \A q \in Procs :
        (req[p].kind = "List" /\ req[p].out = "ok") =>
            /\ Len(req[p].retList) =
                  Min(req[p].limit, Max(0, Cardinality(req[p].view) - req[p].skip))
            /\ (/\ req[q].kind = "List" /\ req[q].out = "ok"
                /\ req[q].view = req[p].view
                /\ req[p].skip + req[p].limit <= req[q].skip) =>
                  \A i \in 1..Len(req[p].retList) : \A j \in 1..Len(req[q].retList) :
                      req[p].retList[i].id /= req[q].retList[j].id

\* C9: list_all returns the users in ascending primary-key order: the window
\* [skip, skip + limit) of the stored rows sorted by id.
C9_AscendingById ==
    \A p \in Procs :
        (req[p].kind = "List" /\ req[p].out = "ok") =>
            \A i \in 1..Len(req[p].retList) :
                Cardinality({r \in req[p].view : r.id < req[p].retList[i].id})
                    = req[p].skip + i - 1

FixedStatus(exc) ==
    CASE exc = "UserNotFoundError" -> 404
      [] exc = "EmailAlreadyExistsError" -> 409
      [] OTHER -> 400

\* C11: a domain failure that reaches the handlers is answered with a fixed
\* status: InvalidEmail and InvalidName 400, UserNotFound 404,
\* EmailAlreadyExists 409, any other DomainError 400; the handler of the
\* specific class wins over the DomainError handler.
C11_DomainErrorStatus ==
    /\ \A exc \in DomainErrors : ExceptionStatus(exc) = FixedStatus(exc)
    /\ \A p \in Procs :
          (req[p].pc = "close" /\ req[p].out \in DomainErrors) =>
              req[p].status = FixedStatus(req[p].out)

\* C11 witness: one request was answered 404 and another 409, both of
\* classes that also match the DomainError handler
C11_Witness ==
    \E p \in Procs : \E q \in Procs :
        /\ req[p].pc = "close" /\ req[p].out = "UserNotFoundError" /\ req[p].status = 404
        /\ req[q].pc = "close" /\ req[q].out = "EmailAlreadyExistsError"
        /\ req[q].status = 409

\* the email is empty or has no "@"
BadEmail(e) == Len(e) = 0 \/ \A i \in 1..Len(e) : e[i] /= "@"

\* C12: for an email that is empty or has no "@" and a name of length at
\* least 2, User(id=None, email, name).validate() fails with InvalidEmail
\* carrying that email.
C12_BadEmailRejected ==
    \A k \in 1..Len(outs) :
        (entity.id = None /\ BadEmail(entity.email) /\ Len(entity.name) >= 2) =>
            outs[k] = [exc |-> "InvalidEmailError", arg |-> entity.email]

\* C12 witness: validate() was called on a user with a non-empty email
\* without "@" and a two-character name
C12_Witness ==
    /\ Len(outs) >= 1 /\ entity.id = None
    /\ entity.email = <<"a", "a">> /\ Len(entity.name) = 2
    /\ outs[1].exc = "InvalidEmailError"

\* C13 as stated: for a name of length less than 2, validate() fails with
\* InvalidName whatever the email, also an empty email or one without "@".
C13_ShortNameAlwaysInvalidName ==
    \A k \in 1..Len(outs) :
        Len(entity.name) < 2 =>
            outs[k] = [exc |-> "InvalidNameError", arg |-> entity.name]

\* C13 amended: for a name of length less than 2, validate() fails: with
\* InvalidName carrying the name when the email is non-empty and contains
\* "@", with InvalidEmail carrying the email otherwise.
C13_ShortNameRejected ==
    \A k \in 1..Len(outs) :
        Len(entity.name) < 2 =>
            outs[k] = IF BadEmail(entity.email)
                      THEN [exc |-> "InvalidEmailError", arg |-> entity.email]
                      ELSE [exc |-> "InvalidNameError", arg |-> entity.name]

\* C13 witness: validate() raised InvalidName for the empty name
C13_Witness ==
    /\ Len(outs) >= 1 /\ entity.name = <<>> /\ ~BadEmail(entity.email)
    /\ outs[1] = [exc |-> "InvalidNameError", arg |-> <<>>]

C16_DeleteReportsRemoval ==
    [][\A p \in Procs :
        /\ (Leaves(p, "delete") /\ DeleteSelect(p) /\ req'[p].pc = "commit") =>
              /\ req'[p].retBool = FALSE
              /\ WithId(db, req[p].id) = {}
              /\ req'[p].pend = NoWrite
        /\ Leaves(p, "delete_flush") /\ DeleteFlush(p) =>
              /\ req'[p].retBool = TRUE
              /\ \E r \in WithId(db, req[p].id) :
                    req'[p].pend = [op |-> "del", old |-> r, row |-> NoUser]
        /\ (Leaves(p, "commit") /\ Commit(p) /\ req[p].kind = "Delete") =>
              /\ {r \in db' : r.id /= req[p].id} = {r \in db : r.id /= req[p].id}
              /\ req[p].retBool => WithId(db, req[p].id) /= {} /\ WithId(db', req[p].id) = {}]_vars

\* C17: a successful Create(email, name) hands save an entity with no id and
\* returns an entity with an id that no other stored user has, the given
\* email and name, is_active true and created_at set; its commit stores
\* exactly that entity under that id.
C17_CreateAssignsId ==
    [][\A p \in Procs :
        /\ Leaves(p, "save") /\ CreateSave(p) => req[p].user.id = None
        /\ (Leaves(p, "save") /\ CreateSave(p) /\ req'[p].out = "ok") =>
              /\ req'[p].retUser.id /= None
              /\ WithId(db, req'[p].retUser.id) = {}
              /\ \A q \in Procs \ {p} : req[q].pend.row.id /= req'[p].retUser.id
              /\ req'[p].retUser.email = req[p].email
              /\ req'[p].retUser.name = req[p].name
              /\ req'[p].retUser.is_active = TRUE
              /\ req'[p].retUser.created_at /= None
        /\ (Leaves(p, "commit") /\ Commit(p) /\ req[p].kind = "Create") =>
              WithId(db', req[p].retUser.id) = {req[p].retUser}]_vars

\* C17 witness: a Create has committed a user with a fresh id next to
\* another stored user
C17_Witness ==
    \E p \in Procs :
        /\ req[p].kind = "Create" /\ req[p].sess = "committed"
        /\ req[p].retUser \in db /\ req[p].retUser.id >= 2
        /\ \E r \in db : r.id /= req[p].retUser.id

\* C18: get_session commits only after the handler returned without an
\* exception; when an exception escaped the handler or the commit it rolls
\* back, drops the flushed writes and lets the exception reach the handlers;
\* it closes the session on every path, and only after the commit or the
\* rollback.
C18_SessionGuard ==
    [][\A p \in Procs :
        /\ (req'[p].sess \in {"committed", "commit_failed"} /\ req'[p].sess /= req[p].sess) =>
              /\ req[p].sess = "open" /\ req[p].out = "ok"
              /\ req[p].pc = "commit"
        /\ (req'[p].sess = "rolledback" /\ req[p].sess /= "rolledback") =>
              /\ req[p].sess \in {"open", "commit_failed"} /\ req[p].out /= "ok"
              /\ db' = db
              /\ req'[p].out = req[p].out
              /\ req'[p].status = ExceptionStatus(req[p].out)
        /\ req'[p].pc = "close" =>
              /\ req'[p].pend = NoWrite
              /\ req'[p].out = "ok" <=> req'[p].sess = "committed"
              /\ req'[p].out /= "ok" <=> req'[p].sess = "rolledback"
        /\ (req[p].kind /= "idle" /\ req'[p].kind = "idle") =>
              /\ req[p].pc = "close"
              /\ req[p].sess \in {"committed", "rolledback"}
        /\ (req[p].pc \in {"commit", "rollback"} /\ req'[p] /= req[p]) =>
              req'[p].pc \in {"rollback", "close"}]_vars

\* C18 witness: a commit raised, the session was rolled back and is about
\* to be closed, and the write it had flushed is not stored
C18_Witness ==
    \E p \in Procs :
        /\ req[p].pc = "close" /\ req[p].out = "DBAPIError"
        /\ req[p].sess = "rolledback" /\ req[p].kind = "Create"
        /\ WithEmail(db, req[p].email) = {}

\* C19 as stated: every Update (PUT) for an id with no stored row ends with
\* UserNotFound and creates or changes no row.
C19_AnyUpdateOfMissingIsNotFound ==
    [][\A p \in Procs :
        (Starts(p, "Update") /\ UpdateGetById(p) /\ WithId(db, req'[p].id) = {}) =>
            /\ req'[p].out = "UserNotFoundError"
            /\ db' = db]_vars

\* C19 amended: an Update (PUT) whose body passes the UserUpdate schema, for
\* an id with no stored row, ends with UserNotFound carrying that id and
\* status 404, calls nothing after get_by_id and creates or changes no row.
C19_UpdateOfMissingIsNotFound ==
    [][\A p \in Procs :
        /\ (Starts(p, "Update") /\ UpdateGetById(p) /\ SchemaOk(req'[p].name) /\ WithId(db, req'[p].id) = {}) =>
              /\ req'[p].out = "UserNotFoundError" /\ req'[p].errId = req'[p].id
              /\ req'[p].calls = <<"get_by_id">>
              /\ req'[p].pc = "rollback" /\ req'[p].pend = NoWrite
              /\ db' = db
        /\ (req[p].kind = "Update" /\ req[p].out = "UserNotFoundError" /\ req'[p] /= req[p]) =>
              /\ db' = db
              /\ Leaves(p, "rollback") /\ Rollback(p) => req'[p].status = 404]_vars

\* C19 witness: an Update of an id that is not stored was answered 404 while
\* other users are stored
C19_Witness ==
    \E p \in Procs :
        /\ req[p].kind = "Update" /\ req[p].pc = "close" /\ req[p].status = 404
        /\ WithId(db, req[p].id) = {} /\ db /= {}

C21_AccessTokensOnly ==
    /\ [][(auth' /= auth /\ auth'.out /= "none" /\ token' = token) =>
            LET c == token.claims
                typ == IF "type" \in DOMAIN c THEN c["type"] ELSE "missing"
                decodes == token.key = JWT_SECRET_KEY
                           /\ ("exp" \in DOMAIN c => c["exp"] >= now)
            IN /\ auth'.out = "payload" => decodes /\ typ = "access" /\ auth'.payload = c
               /\ typ /= "access" => auth'.out = "401"
               /\ ~decodes => auth'.out = "401"
               /\ (decodes /\ typ = "access") => auth'.out = "payload"]_vars
    /\ [][\A data \in DataInputs :
            /\ (\E delta \in DeltaInputs : token' = create_access_token(data, delta, now))
                 => /\ token'.claims["type"] = "access"
                    /\ \A k \in DOMAIN data \ {"exp", "type"} : token'.claims[k] = data[k]
            /\ token' = create_refresh_token(data, now)
                 => /\ token'.claims["type"] = "refresh"
                    /\ \A k \in DOMAIN data \ {"exp", "type"} : token'.claims[k] = data[k]]_vars

\* an access token issued from data that says type "refresh" is accepted
C21_Witness ==
    /\ auth.out = "payload"
    /\ "role" \in DOMAIN token.claims
    /\ auth.payload["type"] = "access"

SameFields(m, u) ==
    /\ m.id = u.id /\ m.email = u.email /\ m.name = u.name
    /\ m.is_active = u.is_active

\* C22 as stated: whenever save(user) with a set id finds no row of that id,
\* it inserts a row with the user's id, email, name and is_active and returns
\* it
C22_FallbackInsertNeverFails ==
    [][\A p \in Procs : Leaves(p, "save_insert") =>
          /\ req'[p].out = "ok"
          /\ req'[p].pend.op = "ins"
          /\ SameFields(req'[p].retUser, req[p].user)]_vars

\* C22: when save(user) with a set id finds no row of that id, it inserts a
\* row with the user's id, email, name and is_active and returns it, unless a
\* committed row holds that email or (inserted meanwhile) that id: then the
\* INSERT is rejected and save fails with IntegrityError, writing nothing
C22_FallbackInsert ==
    [][\A p \in Procs : Leaves(p, "save_insert") =>
          LET u == req[p].user
              taken == \E m \in db : m.email = u.email \/ m.id = u.id
          IN IF taken
             THEN req'[p].out = "IntegrityError" /\ req'[p].pend = NoWrite
             ELSE /\ req'[p].out = "ok"
                  /\ req'[p].pend.op = "ins"
                  /\ req'[p].pend.row = req'[p].retUser
                  /\ SameFields(req'[p].retUser, u)]_vars

\* an Update whose row was deleted after its Get has inserted the row again
C22_Witness ==
    \E p \in Procs :
        /\ req[p].kind = "Update" /\ req[p].pc = "commit"
        /\ req[p].pend.op = "ins"
        /\ req[p].retUser.id = req[p].id
        /\ req[p].read \notin db

\* C23: Delete(id) whose row, as its get_by_id found it, is still stored
\* while its delete runs never returns false: the use case ends with
\* UserNotFoundError(id) when get_by_id finds nothing, and otherwise delete
\* finds the row and returns true
C23_DeleteNeverFalse ==
    [][\A p \in Procs :
        /\ Starts(p, "Delete") =>
              \/ /\ req'[p].out = "UserNotFoundError" /\ req'[p].errId = req'[p].id
                 /\ WithId(db, req'[p].id) = {}
              \/ /\ req'[p].pc = "delete" /\ req'[p].read \in db
                 /\ req'[p].read.id = req'[p].id
        /\ (Leaves(p, "delete") /\ req[p].read \in db) =>
              req'[p].pc = "delete_flush" /\ req'[p].out = "none"
        /\ (Leaves(p, "delete_flush") /\ req[p].read \in db) =>
              req'[p].out = "ok" /\ req'[p].retBool = TRUE]_vars

\* a Delete whose row nobody touched has returned true
C23_Witness ==
    \E p \in Procs :
        /\ req[p].kind = "Delete" /\ req[p].pc = "commit"
        /\ req[p].read \in db
        /\ req[p].out = "ok" /\ req[p].retBool = TRUE

ValidRow(r) == Contains(r.email, "@") /\ Len(r.name) >= 2

InvalidErrors == {"InvalidEmailError", "InvalidNameError"}

\* C24: every stored row and every row a Create or an Update has flushed has
\* an email containing "@" and a name of at least 2 characters; a save is
\* made only after validate() returned in the same request; an Update whose
\* validate() raises writes nothing, takes no further step on the table and
\* ends with 400
C24_WrittenRowsValid ==
    /\ [](/\ \A r \in db : ValidRow(r)
          /\ \A p \in Procs :
               /\ req[p].pend.op \in {"ins", "upd"} => ValidRow(req[p].pend.row)
               /\ \A j \in 1..Len(req[p].calls) :
                     req[p].calls[j] = "save" =>
                        /\ \E i \in 1..(j - 1) : req[p].calls[i] = "validate"
                        /\ validate(req[p].user) = "ok"
               /\ (req[p].kind = "Update" /\ req[p].out \in InvalidErrors) =>
                     /\ req[p].pend = NoWrite
                     /\ req[p].pc \in {"rollback", "close"}
                     /\ req[p].calls = <<"get_by_id", "validate">>
                     /\ req[p].pc = "close" => req[p].status = 400)
    /\ [][\A p \in Procs :
            (req[p].kind = "Update" /\ req[p].out \in InvalidErrors /\ req'[p] /= req[p])
               => db' = db]_vars

\* an Update to an email without "@" has ended with 400 and the row it read
\* is still stored
C24_Witness ==
    \E p \in Procs :
        /\ req[p].kind = "Update" /\ req[p].pc = "close"
        /\ req[p].out = "InvalidEmailError" /\ req[p].status = 400
        /\ ~Contains(req[p].user.email, "@")
        /\ req[p].read \in db

\* C25: after a Delete(id) has succeeded, no page that List can return
\* contains a user with that id; the commit of a Delete that removed a row
\* leaves no row with that id or with the removed row's email, whatever its
\* is_active was, so that the check of a later Create with that email finds
\* nothing
C25_HardDelete ==
    [][\A p \in Procs :
        /\ \A i \in deleted' :
              \A page \in list_all(db', 0, Cardinality(db')) :
                 \A k \in 1..Len(page) : page[k].id /= i
        /\ (Leaves(p, "commit") /\ req[p].kind = "Delete" /\ req[p].pend.op = "del"
              /\ req'[p].sess = "committed") =>
              /\ get_by_id(db', req[p].id) = {}
              /\ get_by_email(db', req[p].pend.old.email) = {}]_vars

RECURSIVE IsPrefix(_, _)
IsPrefix(s, t) ==
    IF s = <<>> THEN TRUE
    ELSE IF t = <<>> THEN FALSE
    ELSE Head(s) = Head(t) /\ IsPrefix(Tail(s), Tail(t))

\* the calls a use case (or the update route) makes, in order
CallOrder(kind) ==
    CASE kind = "Create" -> <<"validate", "get_by_email", "save">>
      [] kind = "Get" -> <<"get_by_id">>
      [] kind = "List" -> <<"list_all">>
      [] kind = "Delete" -> <<"get_by_id", "delete">>
      [] kind = "Update" -> <<"get_by_id", "validate", "save">>
      [] OTHER -> <<>>

\* C26: the calls of a request are an initial part of its use case's
\* sequence of calls, each made once (Create: validate, get_by_email, save;
\* Get: get_by_id; Delete: get_by_id, delete), and a request that has failed
\* makes no further call
C26_NoRetry ==
    /\ [](\A p \in Procs : IsPrefix(req[p].calls, CallOrder(req[p].kind)))
    /\ [][\A p \in Procs :
            (req[p].out \notin {"none", "ok"} /\ req'[p].kind = req[p].kind)
               => req'[p].calls = req[p].calls]_vars

\* a Create whose save failed, after its three calls
C26_Witness ==
    \E p \in Procs :
        /\ req[p].kind = "Create" /\ req[p].pc = "close"
        /\ req[p].out = "IntegrityError"
        /\ req[p].calls = <<"validate", "get_by_email", "save">>

\* C27: List calls list_all once with the skip and limit it was given, 0 and
\* 100 standing in for an argument left out, and returns what list_all
\* returns; no step of a List or of a Get request changes the store
C27_ListPassesThrough ==
    [][\A p \in Procs :
        /\ Starts(p, "List") =>
              LET a == req'[p].args
                  s == IF a[1] = <<>> THEN 0 ELSE a[1][1]
                  l == IF a[2] = <<>> THEN 100 ELSE a[2][1]
              IN /\ req'[p].skip = s /\ req'[p].limit = l
                 /\ req'[p].calls = <<"list_all">>
                 /\ req'[p].retList \in list_all(db, s, l)
                 /\ req'[p].out = "ok"
        /\ ((req[p].kind \in {"List", "Get"} \/ req'[p].kind \in {"List", "Get"})
              /\ req'[p] /= req[p]) =>
              db' = db /\ req'[p].pend = NoWrite]_vars

\* a List called without a limit has returned the third of three stored
\* users, and one called without skip the first two
C27_Witness ==
    \E p, q \in Procs :
        /\ req[p].kind = "List" /\ req[p].pc = "close"
        /\ req[p].args = <<<<2>>, <<>>>>
        /\ req[p].limit = 100
        /\ Cardinality(req[p].view) = 3 /\ Len(req[p].retList) = 1
        /\ req[q].kind = "List"
        /\ req[q].args = <<<<>>, <<2>>>>
        /\ req[q].skip = 0
        /\ Len(req[q].retList) = 2

Failed(r) == r.out \notin {"none", "ok"}

\* C28: the committed store changes only in the commit of a request that
\* ends without error, by exactly the write that request flushed; no step of
\* a request that fails (with a domain error, a rejected statement, or a
\* failure of the commit after save or delete flushed) changes it, and such a
\* request ends rolled back with its flushed write dropped
C28_ErrorsLeaveStore ==
    [][/\ db' /= db =>
            \E p \in Procs :
                /\ req[p].pc = "commit" /\ req[p].out = "ok"
                /\ req'[p].pc = "close" /\ req'[p].out = "ok"
                /\ req'[p].sess = "committed"
                /\ db' = Apply(db, req[p].pend)
       /\ \A p \in Procs :
            /\ ((Failed(req[p]) \/ Failed(req'[p])) /\ req'[p] /= req[p]) => db' = db
            /\ (req'[p].pc = "close" /\ Failed(req'[p])) =>
                  /\ req'[p].pend = NoWrite
                  /\ req'[p].sess = "rolledback"
                  /\ req'[p].status >= 400]_vars

\* a Create whose commit failed after the INSERT was flushed: it ended with
\* 500 and the row it had inserted is not stored
C28_Witness ==
    \E p \in Procs :
        /\ req[p].kind = "Create" /\ req[p].pc = "close"
        /\ req[p].out = "DBAPIError" /\ req[p].status = 500
        /\ req[p].retUser.id /= None
        /\ get_by_id(db, req[p].retUser.id) = {}

\* two Updates of the same user that have both committed: p changed only
\* the name, q only is_active
UpdatedBoth(p, q) ==
    /\ req[p].kind = "Update" /\ req[q].kind = "Update" /\ req[p].id = req[q].id
    /\ req[p].pc = "close" /\ req[p].sess = "committed"
    /\ req[q].pc = "close" /\ req[q].sess = "committed"
    /\ req[p].name = NameNew /\ req[p].email = Absent /\ req[p].active = "None"
    /\ req[q].name = Absent /\ req[q].email = Absent /\ req[q].active = "false"

C30_AtMostOneTrue ==
    \A p, q \in Procs :
        (/\ p /= q
         /\ req[p].kind = "Delete" /\ req[q].kind = "Delete" /\ req[p].id = req[q].id
         /\ req[p].pc \in {"commit", "close"} /\ req[p].out = "ok"
         /\ req[q].pc \in {"commit", "close"} /\ req[q].out = "ok") =>
            /\ ~(req[p].retBool /\ req[q].retBool)
            /\ (req[p].sess = "committed" /\ req[q].sess = "committed") =>
                  WithId(db, req[p].id) = {}
====
